---------------------------- MODULE Spec2Model ----------------------------
(***************************************************************************)
(* Warp-Core benchmark harness (src/warp-core-benchmark-v3.js).            *)
(*                                                                         *)
(* runBenchmark is one async function: a host control flow that issues     *)
(* WebGPU calls, a GPU queue that retires submitted command buffers        *)
(* asynchronously and in submission order, the host wall clock             *)
(* (performance.now) and the device, which the platform may lose at any    *)
(* time.  The host's position is pc; every statement (or group of          *)
(* statements with no observable step between them) is one action.         *)
(***************************************************************************)
EXTENDS Integers, Sequences, FiniteSets, TLC

VARIABLES
    pc,             \* position of runBenchmark
    adapter,        \* result of navigator.gpu.requestAdapter()
    hasTimestamps,  \* <<b>> once const hasTimestamps is set, else << >>
    deviceRequests, \* the requestDevice calls made: their requiredFeatures
    device,         \* [present, lost, maxBufferSize]: the GPUDevice
    pipeline,       \* << >> or <<[slots]>>: result of createPipeline(device)
    buffers,        \* [name, size, valid] of the buffers created, in order
    bindGroup,      \* << >> or <<[entries, valid]>>: device.createBindGroup
    encoder,        \* the command buffer being encoded (finish() pending)
    queueLog,       \* queue operations issued by the host, in order
    retired,        \* number of submitted command buffers the GPU retired
    waitTarget,     \* submissions covered by the pending onSubmittedWorkDone
    drains,         \* drain signals received: what the queue held then
    awaits,         \* source lines of the awaits the host suspended at
    i,              \* loop counter of the benchmark loop
    now,            \* host wall clock, performance.now()
    start,          \* <<t>> once const start is set, else << >>
    end,            \* <<t>> once const end is set, else << >>
    atStart,        \* queue snapshot taken with start
    atEnd,          \* queue snapshot taken with end
    metrics,        \* [latency, tflops] once computed, else << >>
    returned,       \* << >> or <<record>>: the value runBenchmark resolved to
    error,          \* "" or the message/kind of the exception that ended the run
    mIn             \* inputs of the metrics calculation when it is checked alone

vars == <<pc, adapter, hasTimestamps, deviceRequests, device, pipeline, buffers,
          bindGroup, encoder, queueLog, retired, waitTarget, drains, awaits, i,
          now, start, end, atStart, atEnd, metrics, returned, error, mIn>>

----------------------------------------------------------------------------
(* Program constants and model bounds *)

dim == 4096

iterations == 100

\* performance.now() takes values 0..MaxClock
MaxClock == 2

\* the metrics calculation alone: elapsed in 0..MaxElapsedIn (and 250),
\* iterations in 0..MaxIterIn (and 100), dim in 1..MaxDimIn (and 4096)
MaxElapsedIn == 4

MaxIterIn == 4

MaxDimIn == 3

\* the buffer sizing alone: dim in 1..MaxSizeDim (and 4096)
MaxSizeDim == 24

----------------------------------------------------------------------------
(***************************************************************************)
(* JavaScript numbers in the metrics calculation.  The values that occur   *)
(* are non-negative; a finite one is kept exactly as (n / d) * 10^e with   *)
(* d coprime to 10 and n not a multiple of 10 (a unique form), so rounding *)
(* of IEEE doubles is not modelled.  Division by zero follows IEEE 754:    *)
(* x/0 is Infinity for x > 0 and NaN for x = 0.                            *)
(***************************************************************************)
RECURSIVE GCD(_, _)
GCD(a, b) == IF b = 0 THEN a ELSE GCD(b, a % b)

RECURSIVE Canon(_, _, _)
Canon(n, d, e) ==
    IF n = 0 THEN [kind |-> "finite", n |-> 0, d |-> 1, e |-> 0]
    ELSE IF GCD(n, d) > 1 THEN Canon(n \div GCD(n, d), d \div GCD(n, d), e)
    ELSE IF d % 2 = 0 THEN Canon(n * 5, d \div 2, e - 1)
    ELSE IF d % 5 = 0 THEN Canon(n * 2, d \div 5, e - 1)
    ELSE IF n % 10 = 0 THEN Canon(n \div 10, d, e + 1)
    ELSE [kind |-> "finite", n |-> n, d |-> d, e |-> e]

Num(k) == Canon(k, 1, 0)

Infinity == [kind |-> "Infinity", n |-> 0, d |-> 1, e |-> 0]

NaN == [kind |-> "NaN", n |-> 0, d |-> 1, e |-> 0]

IsZero(x) == x.kind = "finite" /\ x.n = 0

\* x / y for JavaScript numbers x, y >= 0 (the operands are evaluated once,
\* as the call's arguments are in the code)
NumDiv(x0, y0) ==
    CHOOSE q \in
        { IF x.kind = "NaN" \/ y.kind = "NaN" THEN NaN
          ELSE IF x.kind = "Infinity"
               THEN (IF y.kind = "Infinity" THEN NaN ELSE Infinity)
          ELSE IF y.kind = "Infinity" THEN Num(0)
          ELSE IF IsZero(y) THEN (IF IsZero(x) THEN NaN ELSE Infinity)
          ELSE LET g1 == GCD(x.n, y.n)
                   g2 == GCD(x.d, y.d)
               IN  Canon((x.n \div g1) * (y.d \div g2),
                         (x.d \div g2) * (y.n \div g1),
                         x.e - y.e)
          : x \in {x0}, y \in {y0} } : TRUE

\* the literals 1000 and 1e12
Thousand == Canon(1, 1, 3)

Tera == Canon(1, 1, 12)

----------------------------------------------------------------------------
(* Metrics calculation, lines 63-77 *)

\* mutant: the normalization pass's operations counted as well
opsPerPass_CountsNormalization(d) == 2 * (d * d) + 4 * d

\* const opsPerPass = 2 * Math.pow(dim, 2)
opsPerPass(d) == 2 * (d * d)

\* const avgLatency = totalTime / iterations
avgLatency(totalTime, iters) == NumDiv(Num(totalTime), Num(iters))

\* const tflops = (opsPerPass / (avgLatency / 1000)) / 1e12
tflops(totalTime, iters, d) ==
    NumDiv(NumDiv(Num(opsPerPass(d)),
                  NumDiv(avgLatency(totalTime, iters), Thousand)),
           Tera)

\* the record of lines 74-77
computeMetrics(totalTime, iters, d) ==
    [latency |-> avgLatency(totalTime, iters),
     tflops  |-> tflops(totalTime, iters, d)]


----------------------------------------------------------------------------
(* The platform: adapter, device, queue, clock *)

\* features an adapter may advertise
AdapterFeatureNames == {"timestamp-query"}

\* requestAdapter() resolves to null when no adapter is available
NoAdapter == [present |-> FALSE, features |-> {}]

AdapterChoices ==
    {NoAdapter} \cup
    {[present |-> TRUE, features |-> f] : f \in SUBSET AdapterFeatureNames}

NoDevice == [present |-> FALSE, lost |-> FALSE, maxBufferSize |-> 0]

\* the largest buffer the device grants: WebGPU's default maxBufferSize
\* (256 MiB), or a device that cannot provide more than 4 MiB
BufferLimitChoices == {256 * 1024 * 1024, 4 * 1024 * 1024}

\* the number of binding slots the kernel pipeline's layout declares
\* (createPipeline is ./warp-core-pipeline.js); the harness expects four
PipelineSlotChoices == {3, 4}

\* the submit() calls among the queue operations
IsSubmit(op) == op.op = "submit"

Submits == SelectSeq(queueLog, IsSubmit)

NumSubmits == Len(Submits)

IsMeasured(op) == op.op = "submit" /\ op.phase = "measured"

NumMeasured == Len(SelectSeq(queueLog, IsMeasured))

\* a command buffer that uses an invalid bind group is invalid: submit()
\* raises a validation error on the device (no exception) and enqueues nothing
Executable == bindGroup # << >> /\ bindGroup[1].valid

\* command buffers on the GPU that are submitted and not yet retired; a lost
\* device executes nothing: what was in flight is abandoned, never retired
InFlight ==
    IF device.lost \/ ~Executable THEN 0 ELSE NumSubmits - retired

\* queue.onSubmittedWorkDone() resolves when everything submitted before the
\* call has completed; on a lost device the promise resolves as well
DrainSignalled == device.lost \/ ~Executable \/ retired >= waitTarget

Snapshot == [submitted |-> NumSubmits, retired |-> retired, inFlight |-> InFlight]

NoSnapshot == [submitted |-> 0, retired |-> 0, inFlight |-> 0]

----------------------------------------------------------------------------
(* runBenchmark, statement by statement *)

\* line 6: throw new Error("WebGPU not supported")
NoAdapterError == "WebGPU not supported"

\* mutant: the feature requested without regard to the capability query
requiredFeatures_Unconditional(hasTs) == {"timestamp-query"}

\* line 11: hasTimestamps ? ["timestamp-query"] : []
requiredFeatures(hasTs) == IF hasTs THEN {"timestamp-query"} ELSE {}

\* line 19 / 21: size: dim * 4
vectorBufferSize(d) == d * 4

\* mutant: the division by 8 done on integers
weightBufferSize_IntegerDivision(d) == ((d * d) \div 8) * 4

\* line 20: size: (dim * dim / 8) * 4; the division is a floating-point one and
\* createBuffer takes the integer part of the size
weightBufferSize(d) == (d * d * 4) \div 8

\* line 22: size: 16
paramBufferSize == 16

\* mutant: the weight and the output buffer bound to each other's slot
bindGroupEntries_Swapped == [b \in 0..3 |->
    CASE b = 0 -> "inputBuffer"
      [] b = 1 -> "outputBuffer"
      [] b = 2 -> "weightBuffer"
      [] b = 3 -> "paramBuffer"]

\* lines 30-35: entries of the bind group
bindGroupEntries == [b \in 0..3 |->
    CASE b = 0 -> "inputBuffer"
      [] b = 1 -> "weightBuffer"
      [] b = 2 -> "outputBuffer"
      [] b = 3 -> "paramBuffer"]

\* lines 39-44 and 51-56: one compute pass with one dispatch
encodePass(bg, d) == [pipeline |-> pipeline, bindGroup |-> bg, workgroups |-> d]

Init ==
    /\ pc = "requestAdapter"
    /\ adapter = NoAdapter
    /\ hasTimestamps = << >>
    /\ deviceRequests = << >>
    /\ device = NoDevice
    /\ pipeline = << >>
    /\ buffers = << >>
    /\ bindGroup = << >>
    /\ encoder = << >>
    /\ queueLog = << >>
    /\ retired = 0
    /\ waitTarget = 0
    /\ drains = << >>
    /\ awaits = << >>
    /\ i = 0
    /\ now = 0
    /\ start = << >>
    /\ end = << >>
    /\ atStart = NoSnapshot
    /\ atEnd = NoSnapshot
    /\ metrics = << >>
    /\ returned = << >>
    /\ error = ""
    /\ mIn = << >>

\* line 5: const adapter = await navigator.gpu.requestAdapter()
RequestAdapter ==
    /\ pc = "requestAdapter"
    /\ \E a \in AdapterChoices : adapter' = a
    /\ awaits' = Append(awaits, 5)
    /\ pc' = "checkAdapter"
    /\ UNCHANGED <<hasTimestamps, deviceRequests, device, pipeline, buffers,
                   bindGroup, encoder, queueLog, retired, waitTarget, drains, i,
                   now, start, end, atStart, atEnd, metrics, returned, error, mIn>>

\* mutant: the null check of line 6 missing
CheckAdapter_NoThrow ==
    /\ pc = "checkAdapter"
    /\ pc' = "queryFeature"
    /\ UNCHANGED <<adapter, hasTimestamps, deviceRequests, device, pipeline,
                   buffers, bindGroup, encoder, queueLog, retired, waitTarget,
                   drains, awaits, i, now, start, end, atStart, atEnd, metrics,
                   returned, error, mIn>>

\* line 6: if (!adapter) { throw ... }
CheckAdapter ==
    /\ pc = "checkAdapter"
    /\ IF adapter.present
       THEN pc' = "queryFeature" /\ error' = error
       ELSE pc' = "failed" /\ error' = NoAdapterError
    /\ UNCHANGED <<adapter, hasTimestamps, deviceRequests, device, pipeline,
                   buffers, bindGroup, encoder, queueLog, retired, waitTarget,
                   drains, awaits, i, now, start, end, atStart, atEnd, metrics,
                   returned, mIn>>

\* line 9: const hasTimestamps = adapter.features.has("timestamp-query")
QueryFeature ==
    /\ pc = "queryFeature"
    /\ hasTimestamps' = <<"timestamp-query" \in adapter.features>>
    /\ pc' = "requestDevice"
    /\ UNCHANGED <<adapter, deviceRequests, device, pipeline, buffers, bindGroup,
                   encoder, queueLog, retired, waitTarget, drains, awaits, i, now,
                   start, end, atStart, atEnd, metrics, returned, error, mIn>>

\* lines 10-12: const device = await adapter.requestDevice({requiredFeatures});
\* the request is rejected with a TypeError when a required feature is not
\* one the adapter advertises
RequestDevice ==
    /\ pc = "requestDevice"
    /\ deviceRequests' = Append(deviceRequests, requiredFeatures(hasTimestamps[1]))
    /\ awaits' = Append(awaits, 10)
    /\ IF requiredFeatures(hasTimestamps[1]) \subseteq adapter.features
       THEN /\ \E m \in BufferLimitChoices :
                    device' = [present |-> TRUE, lost |-> FALSE,
                               maxBufferSize |-> m]
            /\ pc' = "createPipeline"
            /\ error' = error
       ELSE /\ device' = device
            /\ pc' = "failed"
            /\ error' = "TypeError"
    /\ UNCHANGED <<adapter, hasTimestamps, pipeline, buffers, bindGroup, encoder,
                   queueLog, retired, waitTarget, drains, i, now, start, end,
                   atStart, atEnd, metrics, returned, mIn>>

\* line 16: const pipeline = await createPipeline(device)
CreatePipeline ==
    /\ pc = "createPipeline"
    /\ \E n \in PipelineSlotChoices : pipeline' = <<[slots |-> n]>>
    /\ awaits' = Append(awaits, 16)
    /\ pc' = "createInputBuffer"
    /\ UNCHANGED <<adapter, hasTimestamps, deviceRequests, device, buffers,
                   bindGroup, encoder, queueLog, retired, waitTarget, drains, i,
                   now, start, end, atStart, atEnd, metrics, returned, error, mIn>>

\* device.createBuffer({size, ...}) assigned to const `name`.  A size above
\* what the device grants raises a validation or out-of-memory error on the
\* device, not an exception: the call returns an invalid buffer of that size
createBuffer(name, size, next) ==
    /\ buffers' = Append(buffers, [name |-> name, size |-> size,
                                   valid |-> size <= device.maxBufferSize])
    /\ pc' = next
    /\ UNCHANGED <<adapter, hasTimestamps, deviceRequests, device, pipeline,
                   bindGroup, encoder, queueLog, retired, waitTarget, drains,
                   awaits, i, now, start, end, atStart, atEnd, metrics, returned,
                   error, mIn>>

\* line 19
CreateInputBuffer ==
    /\ pc = "createInputBuffer"
    /\ createBuffer("inputBuffer", vectorBufferSize(dim), "createWeightBuffer")

\* line 20
CreateWeightBuffer ==
    /\ pc = "createWeightBuffer"
    /\ createBuffer("weightBuffer", weightBufferSize(dim), "createOutputBuffer")

\* line 21
CreateOutputBuffer ==
    /\ pc = "createOutputBuffer"
    /\ createBuffer("outputBuffer", vectorBufferSize(dim), "createParamBuffer")

\* line 22
CreateParamBuffer ==
    /\ pc = "createParamBuffer"
    /\ createBuffer("paramBuffer", paramBufferSize, "writeDim")

\* device.queue.writeBuffer(paramBuffer, offset, <one 4-byte element>)
writeBuffer(offset, type, value, next) ==
    /\ queueLog' = Append(queueLog,
            [op |-> "writeBuffer", buffer |-> "paramBuffer", offset |-> offset,
             bytes |-> 4, type |-> type, value |-> value])
    /\ pc' = next
    /\ UNCHANGED <<adapter, hasTimestamps, deviceRequests, device, pipeline,
                   buffers, bindGroup, encoder, retired, waitTarget, drains,
                   awaits, i, now, start, end, atStart, atEnd, metrics, returned,
                   error, mIn>>

\* the writeBuffer calls on the parameter buffer among the queue operations
IsParamWrite(op) == op.op = "writeBuffer" /\ op.buffer = "paramBuffer"

ParamWrites == SelectSeq(queueLog, IsParamWrite)

\* the 16-byte block before any write: no byte holds data
BlankBlock == [b \in 0..(paramBufferSize - 1) |-> << >>]

\* writeBuffer(paramBuffer, offset, data): byte offset + k receives byte k of
\* the data, the other bytes keep their content
applyWrite(block, w) ==
    [b \in DOMAIN block |->
        IF b >= w.offset /\ b < w.offset + w.bytes
        THEN <<w.value, b - w.offset>>
        ELSE block[b]]

\* the block after the writes ws, applied in order
RECURSIVE applyWrites(_, _)
applyWrites(block, ws) ==
    IF ws = << >> THEN block
    ELSE applyWrites(applyWrite(block, Head(ws)), Tail(ws))

\* line 24
WriteDim ==
    /\ pc = "writeDim"
    /\ writeBuffer(0, "u32", "dim", "writeEpsilon")

\* line 25
WriteEpsilon ==
    /\ pc = "writeEpsilon"
    /\ writeBuffer(4, "f32", "1e-5", "writeScale")

\* mutant: the scale written at the offset of epsilon
WriteScale_AtOffset4 ==
    /\ pc = "writeScale"
    /\ writeBuffer(4, "f32", "1.0", "createBindGroup")

\* line 26
WriteScale ==
    /\ pc = "writeScale"
    /\ writeBuffer(8, "f32", "1.0", "createBindGroup")

\* createBindGroup validates the entries against the layout: as many entries
\* as the layout declares slots, each a valid buffer; a mismatch raises a
\* validation error on the device (no exception) and the bind group is invalid
bindGroupValid(layout, entries) ==
    /\ Cardinality(DOMAIN entries) = layout.slots
    /\ \A b \in DOMAIN entries :
            \E k \in 1..Len(buffers) :
                buffers[k].name = entries[b] /\ buffers[k].valid

\* lines 28-36
CreateBindGroup ==
    /\ pc = "createBindGroup"
    /\ bindGroup' = <<[entries |-> bindGroupEntries,
                       valid |-> bindGroupValid(pipeline[1], bindGroupEntries)]>>
    /\ pc' = "encodeWarmUp"
    /\ UNCHANGED <<adapter, hasTimestamps, deviceRequests, device, pipeline,
                   buffers, encoder, queueLog, retired, waitTarget, drains,
                   awaits, i, now, start, end, atStart, atEnd, metrics, returned,
                   error, mIn>>

\* lines 39-44
EncodeWarmUp ==
    /\ pc = "encodeWarmUp"
    /\ encoder' = <<encodePass(bindGroup, dim)>>
    /\ pc' = "submitWarmUp"
    /\ UNCHANGED <<adapter, hasTimestamps, deviceRequests, device, pipeline,
                   buffers, bindGroup, queueLog, retired, waitTarget, drains,
                   awaits, i, now, start, end, atStart, atEnd, metrics, returned,
                   error, mIn>>

\* device.queue.submit([<encoder>.finish()])
submit(phase) ==
    /\ queueLog' = Append(queueLog,
            [op |-> "submit", phase |-> phase, commands |-> encoder[1]])
    /\ encoder' = << >>

\* line 45
SubmitWarmUp ==
    /\ pc = "submitWarmUp"
    /\ submit("warmUp")
    /\ pc' = "awaitWarmUp"
    /\ UNCHANGED <<adapter, hasTimestamps, deviceRequests, device, pipeline,
                   buffers, bindGroup, retired, waitTarget, drains, awaits, i,
                   now, start, end, atStart, atEnd, metrics, returned, error, mIn>>

\* await device.queue.onSubmittedWorkDone(): the call, and the host suspends
awaitWorkDone(line, waitPc) ==
    /\ waitTarget' = NumSubmits
    /\ awaits' = Append(awaits, line)
    /\ pc' = waitPc
    /\ UNCHANGED <<adapter, hasTimestamps, deviceRequests, device, pipeline,
                   buffers, bindGroup, encoder, queueLog, retired, drains, i, now,
                   start, end, atStart, atEnd, metrics, returned, error, mIn>>

\* the promise resolves and the host resumes
resumeWorkDone(next) ==
    /\ DrainSignalled
    /\ drains' = Append(drains, Snapshot)
    /\ pc' = next
    /\ UNCHANGED <<adapter, hasTimestamps, deviceRequests, device, pipeline,
                   buffers, bindGroup, encoder, queueLog, retired, waitTarget,
                   awaits, i, now, start, end, atStart, atEnd, metrics, returned,
                   error, mIn>>

\* mutant: line 46 missing, the warm-up is not awaited
AwaitWarmUp_NotAwaited ==
    /\ pc = "awaitWarmUp"
    /\ pc' = "recordStart"
    /\ UNCHANGED <<adapter, hasTimestamps, deviceRequests, device, pipeline,
                   buffers, bindGroup, encoder, queueLog, retired, waitTarget,
                   drains, awaits, i, now, start, end, atStart, atEnd, metrics,
                   returned, error, mIn>>

\* line 46
AwaitWarmUp ==
    /\ pc = "awaitWarmUp"
    /\ awaitWorkDone(46, "warmUpWait")

ResumeWarmUp ==
    /\ pc = "warmUpWait"
    /\ resumeWorkDone("recordStart")

\* line 49: const start = performance.now(), and let i = 0 of line 50
RecordStart ==
    /\ pc = "recordStart"
    /\ start' = <<now>>
    /\ atStart' = Snapshot
    /\ i' = 0
    /\ pc' = "loop"
    /\ UNCHANGED <<adapter, hasTimestamps, deviceRequests, device, pipeline,
                   buffers, bindGroup, encoder, queueLog, retired, waitTarget,
                   drains, awaits, now, end, atEnd, metrics, returned, error, mIn>>

\* mutant: the loop condition off by one, i <= iterations
EncodeMeasured_OffByOne ==
    /\ pc = "loop"
    /\ i <= iterations
    /\ encoder' = <<encodePass(bindGroup, dim)>>
    /\ pc' = "submitMeasured"
    /\ UNCHANGED <<adapter, hasTimestamps, deviceRequests, device, pipeline,
                   buffers, bindGroup, queueLog, retired, waitTarget, drains,
                   awaits, i, now, start, end, atStart, atEnd, metrics, returned,
                   error, mIn>>

\* mutant: the scale uploaded again in every iteration of the loop
EncodeMeasured_RewritesParams ==
    /\ pc = "loop"
    /\ i < iterations
    /\ queueLog' = Append(queueLog,
            [op |-> "writeBuffer", buffer |-> "paramBuffer", offset |-> 8,
             bytes |-> 4, type |-> "f32", value |-> "1.0"])
    /\ encoder' = <<encodePass(bindGroup, dim)>>
    /\ pc' = "submitMeasured"
    /\ UNCHANGED <<adapter, hasTimestamps, deviceRequests, device, pipeline,
                   buffers, bindGroup, retired, waitTarget, drains, awaits, i,
                   now, start, end, atStart, atEnd, metrics, returned, error, mIn>>

\* line 50 (i < iterations holds) and lines 51-56
EncodeMeasured ==
    /\ pc = "loop"
    /\ i < iterations
    /\ encoder' = <<encodePass(bindGroup, dim)>>
    /\ pc' = "submitMeasured"
    /\ UNCHANGED <<adapter, hasTimestamps, deviceRequests, device, pipeline,
                   buffers, bindGroup, queueLog, retired, waitTarget, drains,
                   awaits, i, now, start, end, atStart, atEnd, metrics, returned,
                   error, mIn>>

\* mutant: an await of onSubmittedWorkDone() after every submission
SubmitMeasured_AwaitsEach ==
    /\ pc = "submitMeasured"
    /\ submit("measured")
    /\ i' = i + 1
    /\ waitTarget' = NumSubmits + 1
    /\ awaits' = Append(awaits, 57)
    /\ pc' = "iterationWait"
    /\ UNCHANGED <<adapter, hasTimestamps, deviceRequests, device, pipeline,
                   buffers, bindGroup, retired, drains, now, start, end, atStart,
                   atEnd, metrics, returned, error, mIn>>

\* line 57, and i++ of line 50
SubmitMeasured ==
    /\ pc = "submitMeasured"
    /\ submit("measured")
    /\ i' = i + 1
    /\ pc' = "loop"
    /\ UNCHANGED <<adapter, hasTimestamps, deviceRequests, device, pipeline,
                   buffers, bindGroup, retired, waitTarget, drains, awaits, now,
                   start, end, atStart, atEnd, metrics, returned, error, mIn>>

\* mutant: the drain awaited for one submission more than was made
AwaitDrain_WaitsForMore ==
    /\ pc = "loop"
    /\ ~(i < iterations)
    /\ waitTarget' = NumSubmits + 1
    /\ awaits' = Append(awaits, 60)
    /\ pc' = "drainWait"
    /\ UNCHANGED <<adapter, hasTimestamps, deviceRequests, device, pipeline,
                   buffers, bindGroup, encoder, queueLog, retired, drains, i, now,
                   start, end, atStart, atEnd, metrics, returned, error, mIn>>

\* line 50 (i < iterations fails) and line 60
AwaitDrain ==
    /\ pc = "loop"
    /\ ~(i < iterations)
    /\ awaitWorkDone(60, "drainWait")

ResumeDrain ==
    /\ pc = "drainWait"
    /\ resumeWorkDone("recordEnd")

\* line 61: const end = performance.now()
RecordEnd ==
    /\ pc = "recordEnd"
    /\ end' = <<now>>
    /\ atEnd' = Snapshot
    /\ pc' = "calculate"
    /\ UNCHANGED <<adapter, hasTimestamps, deviceRequests, device, pipeline,
                   buffers, bindGroup, encoder, queueLog, retired, waitTarget,
                   drains, awaits, i, now, start, atStart, metrics, returned,
                   error, mIn>>

\* mutant: with the timestamp feature the elapsed time is taken as the end
\* reading alone, as if it were a GPU-side duration
CalculateMetrics_UsesTimestamps ==
    /\ pc = "calculate"
    /\ metrics' = <<computeMetrics(IF hasTimestamps[1] THEN end[1]
                                   ELSE end[1] - start[1], iterations, dim)>>
    /\ pc' = "return"
    /\ UNCHANGED <<adapter, hasTimestamps, deviceRequests, device, pipeline,
                   buffers, bindGroup, encoder, queueLog, retired, waitTarget,
                   drains, awaits, i, now, start, end, atStart, atEnd, returned,
                   error, mIn>>

\* lines 64-70
CalculateMetrics ==
    /\ pc = "calculate"
    /\ metrics' = <<computeMetrics(end[1] - start[1], iterations, dim)>>
    /\ pc' = "return"
    /\ UNCHANGED <<adapter, hasTimestamps, deviceRequests, device, pipeline,
                   buffers, bindGroup, encoder, queueLog, retired, waitTarget,
                   drains, awaits, i, now, start, end, atStart, atEnd, returned,
                   error, mIn>>

\* lines 72-77: log and return { latency, tflops }
Return ==
    /\ pc = "return"
    /\ returned' = metrics
    /\ pc' = "done"
    /\ UNCHANGED <<adapter, hasTimestamps, deviceRequests, device, pipeline,
                   buffers, bindGroup, encoder, queueLog, retired, waitTarget,
                   drains, awaits, i, now, start, end, atStart, atEnd, metrics,
                   error, mIn>>

----------------------------------------------------------------------------
(* The environment of the run *)

Running ==
    pc \notin {"done", "failed", "metricsInput", "metricsDone", "sizeInput",
               "sizeWeight", "sizeOutput", "sizeParam", "sizeDone"}

\* the GPU retires the oldest command buffer in flight
RetireWork ==
    /\ Running
    /\ InFlight > 0
    /\ retired' = retired + 1
    /\ UNCHANGED <<pc, adapter, hasTimestamps, deviceRequests, device, pipeline,
                   buffers, bindGroup, encoder, queueLog, waitTarget, drains,
                   awaits, i, now, start, end, atStart, atEnd, metrics, returned,
                   error, mIn>>

\* the device is lost; nothing in the source observes device.lost
LoseDevice ==
    /\ Running
    /\ device.present
    /\ ~device.lost
    /\ device' = [device EXCEPT !.lost = TRUE]
    /\ UNCHANGED <<pc, adapter, hasTimestamps, deviceRequests, pipeline, buffers,
                   bindGroup, encoder, queueLog, retired, waitTarget, drains,
                   awaits, i, now, start, end, atStart, atEnd, metrics, returned,
                   error, mIn>>

\* the wall clock advances.  The run reads it at lines 49 and 61 only, so
\* the time that passes between two reads is taken in steps right before a read
Tick ==
    /\ pc \in {"recordStart", "recordEnd"}
    /\ now < MaxClock
    /\ now' = now + 1
    /\ UNCHANGED <<pc, adapter, hasTimestamps, deviceRequests, device, pipeline,
                   buffers, bindGroup, encoder, queueLog, retired, waitTarget,
                   drains, awaits, i, start, end, atStart, atEnd, metrics,
                   returned, error, mIn>>

Next ==
    \/ RequestAdapter
    \/ CheckAdapter
    \/ QueryFeature
    \/ RequestDevice
    \/ CreatePipeline
    \/ CreateInputBuffer
    \/ CreateWeightBuffer
    \/ CreateOutputBuffer
    \/ CreateParamBuffer
    \/ WriteDim
    \/ WriteEpsilon
    \/ WriteScale
    \/ CreateBindGroup
    \/ EncodeWarmUp
    \/ SubmitWarmUp
    \/ AwaitWarmUp
    \/ ResumeWarmUp
    \/ RecordStart
    \/ EncodeMeasured
    \/ SubmitMeasured
    \/ AwaitDrain
    \/ ResumeDrain
    \/ RecordEnd
    \/ CalculateMetrics
    \/ Return
    \/ RetireWork
    \/ LoseDevice
    \/ Tick

Spec == Init /\ [][Next]_vars

\* the steps of runBenchmark itself
HostStep ==
    \/ RequestAdapter
    \/ CheckAdapter
    \/ QueryFeature
    \/ RequestDevice
    \/ CreatePipeline
    \/ CreateInputBuffer
    \/ CreateWeightBuffer
    \/ CreateOutputBuffer
    \/ CreateParamBuffer
    \/ WriteDim
    \/ WriteEpsilon
    \/ WriteScale
    \/ CreateBindGroup
    \/ EncodeWarmUp
    \/ SubmitWarmUp
    \/ AwaitWarmUp
    \/ ResumeWarmUp
    \/ RecordStart
    \/ EncodeMeasured
    \/ SubmitMeasured
    \/ AwaitDrain
    \/ ResumeDrain
    \/ RecordEnd
    \/ CalculateMetrics
    \/ Return

\* a run in which the device is not lost
NextLive ==
    \/ HostStep
    \/ RetireWork
    \/ Tick

\* The JavaScript job queue runs every continuation whose promise has
\* settled and a synchronous statement always completes (weak fairness of
\* the host's steps); the queue retires every submitted command buffer
\* eventually (weak fairness of RetireWork).
SpecLive ==
    /\ Init
    /\ [][NextLive]_vars
    /\ WF_vars(HostStep)
    /\ WF_vars(RetireWork)

----------------------------------------------------------------------------
(***************************************************************************)
(* The metrics calculation of lines 63-77 alone, as a function of the      *)
(* elapsed time, the iteration count and the dimension.                    *)
(***************************************************************************)
ElapsedInputs == (0..MaxElapsedIn) \cup {250}

IterationInputs == (0..MaxIterIn) \cup {100}

DimInputs == (1..MaxDimIn) \cup {4096}

InitMetrics ==
    /\ pc = "metricsInput"
    /\ mIn \in {<<[elapsedMs |-> t, iterations |-> n, dim |-> d]>> :
                    t \in ElapsedInputs, n \in IterationInputs, d \in DimInputs}
    /\ adapter = NoAdapter
    /\ hasTimestamps = << >>
    /\ deviceRequests = << >>
    /\ device = NoDevice
    /\ pipeline = << >>
    /\ buffers = << >>
    /\ bindGroup = << >>
    /\ encoder = << >>
    /\ queueLog = << >>
    /\ retired = 0
    /\ waitTarget = 0
    /\ drains = << >>
    /\ awaits = << >>
    /\ i = 0
    /\ now = 0
    /\ start = << >>
    /\ end = << >>
    /\ atStart = NoSnapshot
    /\ atEnd = NoSnapshot
    /\ metrics = << >>
    /\ returned = << >>
    /\ error = ""

\* lines 64-77 applied to the inputs
Compute ==
    /\ pc = "metricsInput"
    /\ metrics' = <<computeMetrics(mIn[1].elapsedMs, mIn[1].iterations, mIn[1].dim)>>
    /\ returned' = metrics'
    /\ pc' = "metricsDone"
    /\ UNCHANGED <<adapter, hasTimestamps, deviceRequests, device, pipeline,
                   buffers, bindGroup, encoder, queueLog, retired, waitTarget,
                   drains, awaits, i, now, start, end, atStart, atEnd, error, mIn>>

NextMetrics == Compute

SpecMetrics == InitMetrics /\ [][NextMetrics]_vars

----------------------------------------------------------------------------
(***************************************************************************)
(* The buffer sizing of lines 19-22 alone, as a function of the dimension. *)
(***************************************************************************)
SizeDimInputs == (1..MaxSizeDim) \cup {4096}

InitSizes ==
    /\ pc = "sizeInput"
    /\ mIn \in {<<[dim |-> d]>> : d \in SizeDimInputs}
    /\ adapter = NoAdapter
    /\ hasTimestamps = << >>
    /\ deviceRequests = << >>
    /\ device = [present |-> TRUE, lost |-> FALSE,
                 maxBufferSize |-> 256 * 1024 * 1024]
    /\ pipeline = << >>
    /\ buffers = << >>
    /\ bindGroup = << >>
    /\ encoder = << >>
    /\ queueLog = << >>
    /\ retired = 0
    /\ waitTarget = 0
    /\ drains = << >>
    /\ awaits = << >>
    /\ i = 0
    /\ now = 0
    /\ start = << >>
    /\ end = << >>
    /\ atStart = NoSnapshot
    /\ atEnd = NoSnapshot
    /\ metrics = << >>
    /\ returned = << >>
    /\ error = ""

\* line 19 with the given dim
SizeInputBuffer ==
    /\ pc = "sizeInput"
    /\ createBuffer("inputBuffer", vectorBufferSize(mIn[1].dim), "sizeWeight")

\* line 20 with the given dim
SizeWeightBuffer ==
    /\ pc = "sizeWeight"
    /\ createBuffer("weightBuffer", weightBufferSize(mIn[1].dim), "sizeOutput")

\* line 21 with the given dim
SizeOutputBuffer ==
    /\ pc = "sizeOutput"
    /\ createBuffer("outputBuffer", vectorBufferSize(mIn[1].dim), "sizeParam")

\* line 22
SizeParamBuffer ==
    /\ pc = "sizeParam"
    /\ createBuffer("paramBuffer", paramBufferSize, "sizeDone")

NextSizes ==
    \/ SizeInputBuffer
    \/ SizeWeightBuffer
    \/ SizeOutputBuffer
    \/ SizeParamBuffer

SpecSizes == InitSizes /\ [][NextSizes]_vars

----------------------------------------------------------------------------
(* Properties *)

Started == start # << >>

Ended == end # << >>

WarmUpOnly == [submitted |-> 1, retired |-> 1, inFlight |-> 0]

AllRetired ==
    [submitted |-> 1 + iterations, retired |-> 1 + iterations, inFlight |-> 0]

C2_EndAfterAllRetired ==
    Ended =>
        /\ NumMeasured = iterations
        /\ Len(drains) = 2
        /\ drains[2].submitted = 1 + iterations
        /\ atEnd.retired = 1 + iterations

\* C3: the measured interval covers exactly the `iterations` measured
\* dispatches: at the start timestamp only the warm-up is submitted and it is
\* retired, at the end timestamp all 1 + iterations dispatches are submitted
\* and retired, and at neither timestamp is work in flight.
C3_IntervalCoversMeasured ==
    /\ Started => atStart = WarmUpOnly
    /\ Ended => atEnd = AllRetired

\* C4: between the first and the last measured submission the host never
\* waits: it is at the loop head or at the submit, the last await it made is
\* the warm-up drain of line 46 and only that drain has signalled; between 0
\* and all of the measured dispatches submitted so far are in flight.  The
\* drain wait of line 60 is made only after the last submission.
C4_NoWaitBetweenSubmissions ==
    /\ (NumMeasured >= 1 /\ NumMeasured < iterations) =>
            /\ pc \in {"loop", "submitMeasured"}
            /\ awaits[Len(awaits)] = 46
            /\ Len(drains) = 1
            /\ InFlight \in 0..NumMeasured
    /\ (\E k \in 1..Len(awaits) : awaits[k] = 60) => NumMeasured = iterations
    /\ pc = "drainWait" => InFlight \in 0..iterations

\* the last measured dispatch is about to be submitted while every earlier
\* measured dispatch is still in flight
C4_Witness ==
    /\ pc = "submitMeasured"
    /\ NumMeasured = iterations - 1
    /\ InFlight = iterations - 1

\* C5: the first submission of the run is the warm-up dispatch, it is the
\* only warm-up submission, every submission dispatches `dim` workgroups, no
\* measured dispatch is submitted before the warm-up drain has signalled, and
\* a run that returns has submitted exactly 1 + iterations dispatches.
C5_SubmissionCount ==
    /\ LET subs == Submits
       IN  \A k \in 1..Len(subs) :
                /\ subs[k].phase = (IF k = 1 THEN "warmUp" ELSE "measured")
                /\ subs[k].commands.workgroups = dim
    /\ NumMeasured >= 1 => (Len(drains) >= 1 /\ drains[1].submitted = 1)
    /\ pc = "done" => NumSubmits = 1 + iterations

C5_Witness ==
    /\ pc = "done"
    /\ NumSubmits = 1 + iterations
    /\ NumMeasured = iterations

\* C6: the device request lists the timestamp feature iff the adapter
\* advertises it, the capability query precedes the request, no requested
\* feature is one the adapter lacks, and no device request fails.
C6_FeatureGated ==
    /\ \A k \in 1..Len(deviceRequests) :
            /\ hasTimestamps # << >>
            /\ deviceRequests[k] \subseteq adapter.features
            /\ ("timestamp-query" \in deviceRequests[k])
                    <=> ("timestamp-query" \in adapter.features)
    /\ error # "TypeError"
    /\ Len(deviceRequests) <= 1

\* an adapter without the feature: nothing is requested and a device is obtained
C6_Witness ==
    /\ adapter.present
    /\ "timestamp-query" \notin adapter.features
    /\ deviceRequests = << {} >>
    /\ device.present

\* C7: when requestAdapter yields no adapter the run fails at line 6 with
\* the no-adapter error and nothing else has happened: no device request, no
\* buffer, no queue operation, no timestamp, no metrics.
C7_NoAdapterFailsClean ==
    /\ (pc \notin {"requestAdapter", "checkAdapter", "metricsInput", "metricsDone"}
            /\ ~adapter.present) =>
            /\ pc = "failed"
            /\ error = NoAdapterError
            /\ hasTimestamps = << >>
            /\ deviceRequests = << >>
            /\ ~device.present
            /\ pipeline = << >>
            /\ buffers = << >>
            /\ bindGroup = << >>
            /\ queueLog = << >>
            /\ start = << >>
            /\ end = << >>
            /\ metrics = << >>
            /\ returned = << >>
    /\ error = NoAdapterError => ~adapter.present

C7_Witness ==
    /\ pc = "failed"
    /\ error = NoAdapterError
    /\ ~adapter.present

\* C8: metrics are returned only by runs in which the warm-up and all
\* `iterations` measured submissions were retired; a run whose device was
\* lost before that fails and returns nothing.
C8_NoMetricsAfterDeviceLoss ==
    returned # << >> =>
        /\ NumSubmits = 1 + iterations
        /\ retired = NumSubmits

\* C9: metrics are returned only when iterations and the elapsed time are
\* both strictly positive, so the returned throughput and latency are finite.
C9_NoMetricsOnZeroElapsed ==
    (returned # << >> /\ ~device.lost) =>
        /\ iterations > 0
        /\ end[1] - start[1] > 0
        /\ returned[1].latency.kind = "finite"
        /\ returned[1].tflops.kind = "finite"

\* 1e9, and x * y for finite numbers x and y
Giga == Canon(1, 1, 9)

NumMul(x, y) ==
    LET g1 == GCD(x.n, y.d)
        g2 == GCD(y.n, x.d)
    IN  Canon((x.n \div g1) * (y.n \div g2),
              (x.d \div g2) * (y.d \div g1),
              x.e + y.e)

\* C10: for every elapsed time, iterations > 0 and dim, the returned latency
\* times iterations is the elapsed time, and 2 * dim * dim (nothing added for
\* the normalization) divided by the returned throughput is the latency (ms)
\* times 1e9 (for elapsed 0 the throughput is Infinity); for dim 4096,
\* iterations 100 and elapsed 250 the latency is 2.5 and opsPerPass 33554432.
C10_MetricsFormula ==
    (pc = "metricsDone" /\ mIn[1].iterations > 0) =>
        LET in == mIn[1]
            m  == returned[1]
        IN  /\ m.latency.kind = "finite"
            /\ NumMul(m.latency, Num(in.iterations)) = Num(in.elapsedMs)
            /\ IF in.elapsedMs = 0
               THEN m.tflops = Infinity
               ELSE /\ m.tflops.kind = "finite"
                    /\ NumDiv(Num(2 * in.dim * in.dim), m.tflops)
                            = NumMul(m.latency, Giga)
            /\ (in.dim = 4096 /\ in.iterations = 100 /\ in.elapsedMs = 250) =>
                    /\ m.latency = Canon(25, 1, -1)
                    /\ opsPerPass(in.dim) = 33554432

\* the example of the specification has been computed
C10_Witness ==
    /\ pc = "metricsDone"
    /\ mIn[1] = [elapsedMs |-> 250, iterations |-> 100, dim |-> 4096]
    /\ returned[1].latency = Canon(25, 1, -1)

\* the size of the buffer created under `name`
SizeOf(name) ==
    LET k == CHOOSE j \in 1..Len(buffers) : buffers[j].name = name
    IN  buffers[k].size

AllFourCreated ==
    /\ Len(buffers) = 4
    /\ {buffers[k].name : k \in 1..4}
            = {"inputBuffer", "weightBuffer", "outputBuffer", "paramBuffer"}

Orders3 == {p \in [1..3 -> 1..3] : \A a, b \in 1..3 : a # b => p[a] # p[b]}

\* the byte range [offset, offset + bytes) of a write
RangeOf(w) == {b \in 0..(paramBufferSize - 1) : b >= w.offset /\ b < w.offset + w.bytes}

\* C12: the upload writes the dimension (u32) at offset 0, epsilon (f32) at
\* offset 4 and scale (f32) at offset 8; the three byte ranges are [0,4),
\* [4,8) and [8,12), pairwise disjoint, every order of the three writes
\* yields the same 16-byte block, and bytes 12..15 are never written (no
\* write of the run, at any time, ends beyond byte 11).
C12_ParamLayout ==
    LET ws == ParamWrites
    IN  /\ Len(ws) <= 3
        /\ \A k \in 1..Len(ws) : ws[k].offset + ws[k].bytes <= 12
        /\ pc = "createBindGroup" =>
            LET block == applyWrites(BlankBlock, ws)
            IN  /\ [k \in 1..3 |-> <<ws[k].value, ws[k].type, ws[k].offset>>]
                        = << <<"dim", "u32", 0>>, <<"1e-5", "f32", 4>>,
                             <<"1.0", "f32", 8>> >>
                /\ RangeOf(ws[1]) = 0..3
                /\ RangeOf(ws[2]) = 4..7
                /\ RangeOf(ws[3]) = 8..11
                /\ \A p \in Orders3 :
                        applyWrites(BlankBlock, [k \in 1..3 |-> ws[p[k]]]) = block
                /\ \A b \in 0..3 : block[b] = <<"dim", b>>
                /\ \A b \in 4..7 : block[b] = <<"1e-5", b - 4>>
                /\ \A b \in 8..11 : block[b] = <<"1.0", b - 8>>
                /\ \A b \in 12..15 : block[b] = << >>

\* the three writes have been made
C12_Witness ==
    /\ pc = "createBindGroup"
    /\ Len(ParamWrites) = 3
    /\ applyWrites(BlankBlock, ParamWrites)[8] = <<"1.0", 0>>

LayoutMismatch == pipeline # << >> /\ pipeline[1].slots # 4

AllocationFailed == \E k \in 1..Len(buffers) : ~buffers[k].valid

\* C13: when the pipeline's layout does not declare exactly four slots the
\* run submits no work and returns no metrics, and it ends failed with
\* LayoutMismatchError.
C13_LayoutMismatchFails ==
    LayoutMismatch =>
        /\ NumSubmits = 0
        /\ returned = << >>
        /\ pc \in {"done", "failed"} =>
                (pc = "failed" /\ error = "LayoutMismatchError")

\* C14: every buffer created has the size computed from dim, and when a
\* requested size exceeds what the device grants the run submits no work and
\* returns no metrics, and it ends failed with AllocationError.
C14_AllocationFailureFails ==
    /\ \A k \in 1..Len(buffers) :
            buffers[k].size =
                CASE buffers[k].name = "weightBuffer" -> (dim * dim) \div 2
                  [] buffers[k].name = "paramBuffer" -> 16
                  [] OTHER -> dim * 4
    /\ AllocationFailed =>
            /\ NumSubmits = 0
            /\ returned = << >>
            /\ pc \in {"done", "failed"} =>
                    (pc = "failed" /\ error = "AllocationError")

\* the slot -> buffer association the kernel expects
ExpectedBindings ==
    (0 :> "inputBuffer") @@ (1 :> "weightBuffer") @@
    (2 :> "outputBuffer") @@ (3 :> "paramBuffer")

C15_State ==
    /\ NumSubmits >= 1 => bindGroup # << >>
    /\ encoder # << >> => encoder[1].bindGroup = bindGroup
    /\ bindGroup # << >> =>
            /\ bindGroup[1].entries = ExpectedBindings
            /\ Len(buffers) = 4
            /\ {buffers[k].name : k \in 1..4}
                    = {ExpectedBindings[b] : b \in 0..3}
            /\ LET subs == Submits
               IN  \A k \in 1..Len(subs) :
                        subs[k].commands.bindGroup = bindGroup

C15_Step ==
    /\ bindGroup # << >> => (bindGroup' = bindGroup /\ buffers' = buffers)
    /\ Len(buffers') >= Len(buffers)
    /\ \A k \in 1..Len(buffers) : buffers'[k] = buffers[k]

\* C15: the binding set maps slot 0 to the input, 1 to the weight, 2 to the
\* output and 3 to the parameter buffer; it exists before the warm-up is
\* submitted, the warm-up and every measured dispatch are bound to it, and
\* once built neither it nor any of the four buffers ever changes (a buffer,
\* once created, is never replaced or resized).
C15_BindingSetFixed == [](C15_State) /\ [][C15_Step]_vars

\* a finished run whose 1 + iterations dispatches all used the binding set
C15_Witness ==
    /\ pc = "done"
    /\ bindGroup # << >>
    /\ NumSubmits = 1 + iterations
    /\ Submits[NumSubmits].commands.bindGroup = bindGroup

IsPrefix(a, b) == Len(a) <= Len(b) /\ a = SubSeq(b, 1, Len(a))

\* C16 as stated: the host suspends only at the two queue-drain waits
\* (lines 46 and 60), at no other step of the run.
C16_OnlyDrainWaits ==
    \A k \in 1..Len(awaits) : awaits[k] \in {46, 60}

\* C16 amended: over a whole run the host suspends at exactly five points:
\* the awaits of the adapter request (line 5), the device request (line 10)
\* and the pipeline creation (line 16), all before the first buffer is
\* created or queue operation issued, then the drain wait after the warm-up
\* submission (line 46) and the drain wait after the last measured
\* submission (line 60), and at no other step.
C16_FiveSuspensions ==
    /\ IsPrefix(awaits, <<5, 10, 16, 46, 60>>)
    /\ (buffers # << >> \/ queueLog # << >>) => Len(awaits) >= 3
    /\ Len(awaits) >= 4 => NumSubmits >= 1
    /\ Len(awaits) = 5 => NumMeasured = iterations
    /\ pc = "done" => Len(awaits) = 5

C16_Witness ==
    /\ pc = "done"
    /\ awaits = <<5, 10, 16, 46, 60>>

\* C17: the three parameter writes (offsets 0, 4, 8) are the first three
\* queue operations, every dispatch comes after them and no write comes
\* after a dispatch, so the block the queue holds when any dispatch executes
\* is the same one, with bytes 0..11 all written.
C17_ParamsBeforeDispatch ==
    LET n == Len(queueLog)
    IN  /\ \A k \in 1..n :
                IF k <= 3
                THEN /\ IsParamWrite(queueLog[k])
                     /\ queueLog[k].offset = 4 * (k - 1)
                ELSE IsSubmit(queueLog[k])
        /\ n >= 4 =>
                LET block == applyWrites(BlankBlock, SubSeq(queueLog, 1, 3))
                IN  \A b \in 0..11 : block[b] # << >>

\* the last measured dispatch is enqueued behind the three writes
C17_Witness ==
    /\ NumSubmits = 1 + iterations
    /\ Len(ParamWrites) = 3
    /\ IsParamWrite(queueLog[3])
    /\ IsSubmit(queueLog[4])

\* C18: with an adapter and a device available, a queue that retires every
\* submitted dispatch eventually and in order, and no failure, every run
\* eventually has passed both drain waits, is done and has returned its
\* metrics record; it does not stay in the warm-up, the measuring loop or the
\* final drain.
C18_RunCompletes ==
    (pc = "queryFeature")
        ~> (pc = "done" /\ returned # << >> /\ Len(drains) = 2 /\ Ended)

\* a run without failure, finished with all its work retired
C18_Witness ==
    /\ pc = "done"
    /\ returned # << >>
    /\ Executable
    /\ retired = 1 + iterations

\* the statements of runBenchmark in program order
Statements ==
    <<"requestAdapter", "checkAdapter", "queryFeature", "requestDevice",
      "createPipeline", "createInputBuffer", "createWeightBuffer",
      "createOutputBuffer", "createParamBuffer", "writeDim", "writeEpsilon",
      "writeScale", "createBindGroup", "encodeWarmUp", "submitWarmUp",
      "awaitWarmUp", "warmUpWait", "recordStart", "loop", "submitMeasured",
      "drainWait", "recordEnd", "calculate", "return", "done">>

\* the position of the run; a failed run stopped at its adapter check
Position ==
    IF pc = "failed" THEN 2
    ELSE CHOOSE k \in 1..Len(Statements) : Statements[k] = pc

Clamp(x, lo, hi) == IF x < lo THEN lo ELSE IF x > hi THEN hi ELSE x

\* what a run has done by a position, whatever the adapter advertises
ExpectedBuffers ==
    <<[name |-> "inputBuffer", size |-> vectorBufferSize(dim)],
      [name |-> "weightBuffer", size |-> weightBufferSize(dim)],
      [name |-> "outputBuffer", size |-> vectorBufferSize(dim)],
      [name |-> "paramBuffer", size |-> paramBufferSize]>>

ExpectedWrites ==
    <<[offset |-> 0, type |-> "u32", value |-> "dim"],
      [offset |-> 4, type |-> "f32", value |-> "1e-5"],
      [offset |-> 8, type |-> "f32", value |-> "1.0"]>>

ExpectedAwaits == <<5, 10, 16, 46, 60>>

AwaitsBy(r) == Cardinality({k \in {2, 5, 6, 17, 21} : r >= k})

=============================================================================
